---- MODULE Spec2Model ----
(***************************************************************************)
(* A model of src/src/seo_mcp/server.py: the four MCP tools, the helper    *)
(* get_token_for_url and the CapSolver client get_capsolver_token.         *)
(*                                                                         *)
(* Strings the code builds or inspects character by character (URLs,      *)
(* messages, tool arguments) are sequences of one-character strings.      *)
(* Strings the code only passes along (tokens, task identifiers, upstream *)
(* payloads) are opaque TLA+ strings.  Python's None is the value None.   *)
(***************************************************************************)
EXTENDS Integers, Sequences, FiniteSets, TLC

VARIABLES
    env,        \* os.environ.get("CAPSOLVER_API_KEY"): None when unset
    pc,         \* pc[i]: where invocation i stands in the code
    tool,       \* tool[i]: the tool function invocation i runs
    args,       \* args[i]: the tool's arguments
    site_url,   \* site_url[i]: the URL handed to get_token_for_url
    api_key,    \* api_key[i]: local of get_capsolver_token (line 78)
    task_id,    \* task_id[i]: local of get_capsolver_token (line 87)
    cres,       \* cres[i]: the createTask response (line 84)
    res,        \* res[i]: the latest getTaskResult response (line 93)
    btoken,     \* btoken[i]: the value get_capsolver_token returned
    token,      \* token[i]: local of the tool function
    sig,        \* sig[i]: (signature, valid_until, overview_data), line 43
    ret,        \* ret[i]: the tool's return value
    err,        \* err[i]: the exception the tool raised
    log,        \* log[i]: numbers of createTask, sleep, getTaskResult so far
    sent,       \* sent[i]: the solver requests sent, as a set
    upCalls,    \* upCalls[i]: the upstream query functions called, in order
    health      \* the latest response to GET / (lines 23-26)

vars == <<env, pc, tool, args, site_url, api_key, task_id, cres, res, btoken,
          token, sig, ret, err, log, sent, upCalls, health>>

----------------------------------------------------------------------------
(* Bounds of the model *)

\* Requests of one poll loop are counted exactly up to MaxPolls; a loop that
\* goes on longer keeps running with its counters at MaxPolls + 1.
MaxPolls == 3

\* The tool calls that can be in progress at a time, and the one a client
\* uses who calls the tools one after another.
Procs == {1, 2}
OneClient == {1}

----------------------------------------------------------------------------
(* Values *)

None == "<None>"

\* Python's "not v" for a value that is None or a string.
Falsy(v) == v \in {None, ""}

AhrefsBase == <<"h", "t", "t", "p", "s", ":", "/", "/", "a", "h", "r", "e", "f", "s", ".", "c", "o", "m", "/">>
BacklinkPath == <<"b", "a", "c", "k", "l", "i", "n", "k", "-", "c", "h", "e", "c", "k", "e", "r", "/", "?", "i", "n", "p", "u", "t", "=">>
KeywordGeneratorPath == <<"k", "e", "y", "w", "o", "r", "d", "-", "g", "e", "n", "e", "r", "a", "t", "o", "r", "/", "?", "c", "o", "u", "n", "t", "r", "y", "=">>
TrafficPath == <<"t", "r", "a", "f", "f", "i", "c", "-", "c", "h", "e", "c", "k", "e", "r", "/", "?", "i", "n", "p", "u", "t", "=">>
KeywordDifficultyPath == <<"k", "e", "y", "w", "o", "r", "d", "-", "d", "i", "f", "f", "i", "c", "u", "l", "t", "y", "/", "?", "c", "o", "u", "n", "t", "r", "y", "=">>
AmpInput == <<"&", "i", "n", "p", "u", "t", "=">>
AmpMode == <<"&", "m", "o", "d", "e", "=">>
Subdomains == <<"s", "u", "b", "d", "o", "m", "a", "i", "n", "s">>
Exact == <<"e", "x", "a", "c", "t">>
Us == <<"u", "s">>
NoneStr == <<"N", "o", "n", "e">>
TokenErrPrefix == <<"F", "a", "i", "l", "e", "d", " ", "t", "o", " ", "g", "e", "t", " ", "v", "e", "r", "i", "f", "i", "c", "a", "t", "i", "o", "n", " ", "t", "o", "k", "e", "n", " ", "f", "o", "r", " ", "U", "R", "L", ":", " ">>
SignatureErrPrefix == <<"F", "a", "i", "l", "e", "d", " ", "t", "o", " ", "g", "e", "t", " ", "s", "i", "g", "n", "a", "t", "u", "r", "e", " ", "f", "o", "r", " ", "d", "o", "m", "a", "i", "n", ":", " ">>

\* The keyword put into the URL as it is, without urllib.parse.quote.
QuoteChar_Identity(c) == <<c>>

\* urllib.parse.quote(s) with its default safe="/": letters, digits and
\* "_.-~/" are kept, every other character becomes %XX.
QuoteChar(c) ==
    CASE c = " " -> <<"%", "2", "0">>
      [] c = "&" -> <<"%", "2", "6">>
      [] c = "=" -> <<"%", "3", "D">>
      [] c = "?" -> <<"%", "3", "F">>
      [] c = "#" -> <<"%", "2", "3">>
      [] c = "%" -> <<"%", "2", "5">>
      [] OTHER -> <<c>>

RECURSIVE Quote(_)
Quote(s) == IF s = <<>> THEN <<>> ELSE QuoteChar(Head(s)) \o Quote(Tail(s))

\* Line 65 with the country left out of the f-string.
KeywordDifficultyUrl_NoCountry(keyword, country) ==
    AhrefsBase \o KeywordDifficultyPath \o AmpInput \o Quote(keyword)

\* The f-strings of lines 42, 53, 59 and 65.
BacklinksUrl(domain) ==
    AhrefsBase \o BacklinkPath \o domain \o AmpMode \o Subdomains
KeywordGeneratorUrl(keyword, country) ==
    AhrefsBase \o KeywordGeneratorPath \o country \o AmpInput \o Quote(keyword)
TrafficUrl(domain_or_url, mode) ==
    AhrefsBase \o TrafficPath \o domain_or_url \o AmpMode \o mode
KeywordDifficultyUrl(keyword, country) ==
    AhrefsBase \o KeywordDifficultyPath \o country \o AmpInput \o Quote(keyword)

----------------------------------------------------------------------------
(* Inputs: what callers, the solver and the upstream collaborators supply *)

EnvValues == {None, "", "key1"}

Inputs == {<<"a">>, <<"a", " ", "b">>, <<"a", "/", "b">>,
           <<"&", "=", "?", "#", "%">>}
Countries == {Us, NoneStr}
Modes == {Subdomains, Exact}
SearchEngines == {"Google", "Bing"}

\* A requests.post outcome: the call raised (connection error, timeout), or
\* it gave a response with an HTTP error status, or a response with a JSON
\* object as its body.
TaskIds == {None, "", "task1", "task2"}
CreateResponses ==
    {[kind |-> "exc"], [kind |-> "http"]}
    \cup {[kind |-> "json", taskId |-> t] : t \in TaskIds}

\* errorId 0 also stands for a body without the key (resp.get gives None,
\* equally false).  solution: "absent" (no key), "empty" ({}), or a mapping
\* with the given token.
Statuses == {None, "processing", "ready", "failed"}
Solutions == {"absent", "empty", "", "tokenA", "tokenB"}
PollResponses ==
    {[kind |-> "exc"], [kind |-> "http"]}
    \cup {[kind |-> "json", status |-> s, errorId |-> e, solution |-> t] :
            s \in Statuses, e \in {0, 1}, t \in Solutions}

\* What the upstream query functions of seo_mcp.backlinks, seo_mcp.keywords
\* and seo_mcp.traffic give back when they do not raise: opaque values
\* ("empty" is an empty list or mapping).  Raised marks a call that raised.
Raised == "<raised>"
Signatures == {None, "", "sig1"}
ValidUntils == {None, "until1"}
Overviews == {None, "overview1"}
UpstreamValues == {None, "empty", "data1"}

NoResponse == [kind |-> "none"]
NoSig == [unset |-> TRUE]
NoReturn == [type |-> "none"]
NoError == [kind |-> "none"]
NoArgs == [input |-> <<>>, country |-> <<>>, mode |-> <<>>, search_engine |-> None]
EmptyLog == [creates |-> 0, sleeps |-> 0, waited |-> 0, polls |-> 0, pending |-> 0]

\* A counter of the poll loop, exact up to MaxPolls.
Inc(n) == IF n <= MaxPolls THEN n + 1 ELSE n

----------------------------------------------------------------------------
(* The state after the module is imported: no tool call is running *)

\* No GET / has been answered yet.
NoHealth == [status |-> 0]

Init ==
    /\ env \in EnvValues
    /\ pc = [i \in Procs |-> "idle"]
    /\ tool = [i \in Procs |-> None]
    /\ args = [i \in Procs |-> NoArgs]
    /\ site_url = [i \in Procs |-> <<>>]
    /\ api_key = [i \in Procs |-> None]
    /\ task_id = [i \in Procs |-> None]
    /\ cres = [i \in Procs |-> NoResponse]
    /\ res = [i \in Procs |-> NoResponse]
    /\ btoken = [i \in Procs |-> None]
    /\ token = [i \in Procs |-> None]
    /\ sig = [i \in Procs |-> NoSig]
    /\ ret = [i \in Procs |-> NoReturn]
    /\ err = [i \in Procs |-> NoError]
    /\ log = [i \in Procs |-> EmptyLog]
    /\ sent = [i \in Procs |-> {}]
    /\ upCalls = [i \in Procs |-> <<>>]
    /\ health = NoHealth

----------------------------------------------------------------------------
(* The decisions of the code, one operator per test *)

\* Line 79 as "if api_key is None": an empty key passes.
ApiKeyMissing_IsNone(k) == k = None

\* Line 79: "if not api_key".
ApiKeyMissing(k) == Falsy(k)

\* Line 88 as "if task_id is None": an empty identifier passes.
TaskIdMissing_IsNone(t) == t = None

\* Line 88: "if not task_id".
TaskIdMissing(t) == Falsy(t)

\* Line 97 as resp.get('token'): the token looked up in the body itself.
SolutionToken_TopLevel(body) == None

\* Line 97: resp.get("solution", {}).get('token').
SolutionToken(body) ==
    IF body.solution \in {"absent", "empty"} THEN None ELSE body.solution

\* Lines 96-99 without the test of status "failed".
PollDecision_NoFailed(body) ==
    IF body.status = "ready" THEN "return_token"
    ELSE IF body.errorId # 0 THEN "return_none"
    ELSE "again"

\* Lines 96-99 without the test of errorId.
PollDecision_NoErrorId(body) ==
    IF body.status = "ready" THEN "return_token"
    ELSE IF body.status = "failed" THEN "return_none"
    ELSE "again"

\* Lines 96-99: what one getTaskResult body makes the loop do.
PollDecision(body) ==
    IF body.status = "ready" THEN "return_token"
    ELSE IF body.status = "failed" \/ body.errorId # 0 THEN "return_none"
    ELSE "again"

\* Line 72 without its test: the token is taken as it comes.
TokenUnavailable_Unchecked(t) == FALSE

\* Line 72 as "if token is None": an empty string passes.
TokenUnavailable_IsNone(t) == t = None

\* Line 72: "if not token".
TokenUnavailable(t) == Falsy(t)

\* Line 44 as "if not signature": the validity is not looked at.
SignatureMissing_SignatureOnly(s) == Falsy(s.signature)

\* Line 44: "if not signature or not valid_until".
SignatureMissing(s) == Falsy(s.signature) \/ Falsy(s.valid_until)

\* Line 48 with the two values under each other's key.
BacklinksResult_Swapped(overview_data, backlinks) ==
    [type |-> "dict",
     items |-> [overview |-> backlinks, backlinks |-> overview_data]]

\* Line 48: the mapping get_backlinks_list returns.
BacklinksResult(overview_data, backlinks) ==
    [type |-> "dict",
     items |-> [overview |-> overview_data, backlinks |-> backlinks]]

\* Lines 54, 60, 66: the other tools return the upstream value as it is.
PassThrough(v) == [type |-> "value", value |-> v]

----------------------------------------------------------------------------
(* A tool is called: lines 42, 53, 59, 65 up to the call of                *)
(* get_token_for_url, which calls get_capsolver_token (line 71)            *)

Finished(i) == pc[i] \in {"idle", "done", "raised"}

\* A tool that keeps the last token in a module-level variable and skips
\* get_token_for_url when one is there.
StartCall_Cached(i, t, a, url) ==
    /\ Finished(i)
    /\ LET cached == {token[j] : j \in Procs} \ {None, ""}
       IN  /\ pc' = [pc EXCEPT ![i] = IF cached = {} THEN "read_key" ELSE "query"]
           /\ token' = [token EXCEPT ![i] = IF cached = {} THEN None
                                            ELSE CHOOSE c \in cached : TRUE]
    /\ tool' = [tool EXCEPT ![i] = t]
    /\ args' = [args EXCEPT ![i] = a]
    /\ site_url' = [site_url EXCEPT ![i] = url]
    /\ api_key' = [api_key EXCEPT ![i] = None]
    /\ task_id' = [task_id EXCEPT ![i] = None]
    /\ cres' = [cres EXCEPT ![i] = NoResponse]
    /\ res' = [res EXCEPT ![i] = NoResponse]
    /\ btoken' = [btoken EXCEPT ![i] = None]
    /\ sig' = [sig EXCEPT ![i] = NoSig]
    /\ ret' = [ret EXCEPT ![i] = NoReturn]
    /\ err' = [err EXCEPT ![i] = NoError]
    /\ log' = [log EXCEPT ![i] = EmptyLog]
    /\ sent' = [sent EXCEPT ![i] = {}]
    /\ upCalls' = [upCalls EXCEPT ![i] = <<>>]
    /\ UNCHANGED <<env, health>>

StartCall(i, t, a, url) ==
    /\ Finished(i)
    /\ pc' = [pc EXCEPT ![i] = "read_key"]
    /\ tool' = [tool EXCEPT ![i] = t]
    /\ args' = [args EXCEPT ![i] = a]
    /\ site_url' = [site_url EXCEPT ![i] = url]
    /\ api_key' = [api_key EXCEPT ![i] = None]
    /\ task_id' = [task_id EXCEPT ![i] = None]
    /\ cres' = [cres EXCEPT ![i] = NoResponse]
    /\ res' = [res EXCEPT ![i] = NoResponse]
    /\ btoken' = [btoken EXCEPT ![i] = None]
    /\ token' = [token EXCEPT ![i] = None]
    /\ sig' = [sig EXCEPT ![i] = NoSig]
    /\ ret' = [ret EXCEPT ![i] = NoReturn]
    /\ err' = [err EXCEPT ![i] = NoError]
    /\ log' = [log EXCEPT ![i] = EmptyLog]
    /\ sent' = [sent EXCEPT ![i] = {}]
    /\ upCalls' = [upCalls EXCEPT ![i] = <<>>]
    /\ UNCHANGED <<env, health>>

get_backlinks_list(i) ==
    \E domain \in Inputs :
        StartCall(i, "get_backlinks_list",
                  [NoArgs EXCEPT !.input = domain], BacklinksUrl(domain))

keyword_generator(i) ==
    \E keyword \in Inputs, country \in Countries, engine \in SearchEngines :
        StartCall(i, "keyword_generator",
                  [NoArgs EXCEPT !.input = keyword, !.country = country,
                                 !.search_engine = engine],
                  KeywordGeneratorUrl(keyword, country))

get_traffic(i) ==
    \E domain_or_url \in Inputs, country \in Countries, mode \in Modes :
        StartCall(i, "get_traffic",
                  [NoArgs EXCEPT !.input = domain_or_url, !.country = country,
                                 !.mode = mode],
                  TrafficUrl(domain_or_url, mode))

keyword_difficulty(i) ==
    \E keyword \in Inputs, country \in Countries :
        StartCall(i, "keyword_difficulty",
                  [NoArgs EXCEPT !.input = keyword, !.country = country],
                  KeywordDifficultyUrl(keyword, country))

----------------------------------------------------------------------------
(* get_capsolver_token, lines 76-102 *)

toolVars == <<tool, args, site_url, token, sig, ret, err, upCalls, health>>

\* "return v" with the value kept in a module-level variable that every
\* invocation reads at line 72.
BrokerReturn_Shared(i, v) ==
    /\ pc' = [pc EXCEPT ![i] = "check_token"]
    /\ btoken' = [j \in Procs |-> v]

\* "return v" of get_capsolver_token: control is back at line 72.
BrokerReturn(i, v) ==
    /\ pc' = [pc EXCEPT ![i] = "check_token"]
    /\ btoken' = [btoken EXCEPT ![i] = v]

\* Lines 83-102 without the except clause: the exception leaves the
\* function and ends the tool call.
CatchRequestException_Propagates(i) ==
    /\ pc' = [pc EXCEPT ![i] = "raised"]
    /\ UNCHANGED btoken

\* Lines 100-102 with a retry: the except clause submits the task again.
CatchRequestException_Retry(i) ==
    /\ pc' = [pc EXCEPT ![i] = "create_task"]
    /\ UNCHANGED btoken

\* Lines 100-102: a requests.RequestException raised inside the try block.
CatchRequestException(i) == BrokerReturn(i, None)

\* Lines 78-82.
ReadApiKey(i) ==
    /\ pc[i] = "read_key"
    /\ api_key' = [api_key EXCEPT ![i] = env]
    /\ IF ApiKeyMissing(env)
         THEN BrokerReturn(i, None)
         ELSE /\ pc' = [pc EXCEPT ![i] = "create_task"]
              /\ UNCHANGED btoken
    /\ UNCHANGED <<env, task_id, cres, res, log, sent>>
    /\ UNCHANGED toolVars

\* Lines 84-89: the createTask request and what its response leads to.
CreateTask(i) ==
    /\ pc[i] = "create_task"
    /\ \E r \in CreateResponses :
        /\ cres' = [cres EXCEPT ![i] = r]
        /\ log' = [log EXCEPT ![i].creates = Inc(@)]
        /\ sent' = [sent EXCEPT ![i] = @ \cup
                      {[op |-> "createTask", clientKey |-> api_key[i],
                        websiteURL |-> site_url[i]]}]
        /\ IF r.kind # "json"
             THEN /\ CatchRequestException(i)
                  /\ UNCHANGED task_id
             ELSE /\ task_id' = [task_id EXCEPT ![i] = r.taskId]
                  /\ IF TaskIdMissing(r.taskId)
                       THEN BrokerReturn(i, None)
                       ELSE /\ pc' = [pc EXCEPT ![i] = "sleep"]
                            /\ UNCHANGED btoken
    /\ UNCHANGED <<env, api_key, res>>
    /\ UNCHANGED toolVars

\* Line 91: the argument of time.sleep, in seconds.
SleepSeconds == 2

\* Lines 90-92 without line 91: the poll is posted without waiting.
Sleep_NoWait(i) ==
    /\ pc[i] = "sleep"
    /\ pc' = [pc EXCEPT ![i] = "poll"]
    /\ UNCHANGED <<env, api_key, task_id, cres, res, btoken, log, sent>>
    /\ UNCHANGED toolVars

\* Line 91: time.sleep(2).  The seconds waited are counted as far as the
\* waits are.
Sleep(i) ==
    /\ pc[i] = "sleep"
    /\ pc' = [pc EXCEPT ![i] = "poll"]
    /\ log' = [log EXCEPT ![i].sleeps = Inc(@),
                          ![i].waited = IF log[i].sleeps <= MaxPolls
                                          THEN @ + SleepSeconds ELSE @]
    /\ UNCHANGED <<env, api_key, task_id, cres, res, btoken, sent>>
    /\ UNCHANGED toolVars

\* A getTaskResult answer that does not end the loop, as the solver's
\* protocol has it: status neither ready nor failed, no error indicator.
NonTerminal(r) ==
    /\ r.kind = "json"
    /\ r.status \notin {"ready", "failed"}
    /\ r.errorId = 0

\* Lines 92-93: the getTaskResult request; requests.post raises or gives a
\* response.
PostPoll(i) ==
    /\ pc[i] = "poll"
    /\ \E r \in PollResponses :
        /\ res' = [res EXCEPT ![i] = r]
        /\ log' = [log EXCEPT ![i].polls = Inc(@),
                              ![i].pending = IF NonTerminal(r) THEN Inc(@) ELSE @]
        /\ sent' = [sent EXCEPT ![i] = @ \cup
                      {[op |-> "getTaskResult", clientKey |-> api_key[i],
                        taskId |-> task_id[i]]}]
        /\ IF r.kind = "exc"
             THEN CatchRequestException(i)
             ELSE /\ pc' = [pc EXCEPT ![i] = "handle"]
                  /\ UNCHANGED btoken
    /\ UNCHANGED <<env, api_key, task_id, cres>>
    /\ UNCHANGED toolVars

\* Line 90 as "for _ in range(2):": the loop gives up after two polls and
\* the function falls off its end, returning None.
KeepPolling_TwoAttempts(i) == log[i].polls < 2

\* Line 90: "while True".
KeepPolling(i) == TRUE

\* Lines 94-99: raise_for_status and the tests on the body.
HandlePoll(i) ==
    /\ pc[i] = "handle"
    /\ IF res[i].kind = "http"
         THEN CatchRequestException(i)
         ELSE CASE PollDecision(res[i]) = "return_token" ->
                       BrokerReturn(i, SolutionToken(res[i]))
                [] PollDecision(res[i]) = "return_none" ->
                       BrokerReturn(i, None)
                [] OTHER ->
                       IF KeepPolling(i)
                         THEN /\ pc' = [pc EXCEPT ![i] = "sleep"]
                              /\ UNCHANGED btoken
                         ELSE BrokerReturn(i, None)
    /\ UNCHANGED <<env, api_key, task_id, cres, res, log, sent>>
    /\ UNCHANGED toolVars

----------------------------------------------------------------------------
(* get_token_for_url, lines 72-74, back in the tool *)

brokerVars == <<env, api_key, task_id, cres, res, btoken, log, sent, health>>

\* "raise Exception(msg)": nothing in the module catches it, so the tool
\* call ends with it.
RaiseError(i, e) ==
    /\ pc' = [pc EXCEPT ![i] = "raised"]
    /\ err' = [err EXCEPT ![i] = e]

\* Line 73 with a message that does not interpolate site_url.
TokenError_NoUrl(url) == [kind |-> "token", msg |-> TokenErrPrefix]

\* Line 73: Exception(f"Failed to get verification token for URL: {site_url}").
TokenError(url) == [kind |-> "token", msg |-> TokenErrPrefix \o url]

CheckToken(i) ==
    /\ pc[i] = "check_token"
    /\ IF TokenUnavailable(btoken[i])
         THEN /\ RaiseError(i, TokenError(site_url[i]))
              /\ UNCHANGED token
         ELSE /\ pc' = [pc EXCEPT ![i] = "query"]
              /\ token' = [token EXCEPT ![i] = btoken[i]]
              /\ UNCHANGED err
    /\ UNCHANGED <<tool, args, site_url, sig, ret, upCalls>>
    /\ UNCHANGED brokerVars

----------------------------------------------------------------------------
(* The rest of each tool: the upstream queries.  The query functions are   *)
(* imported (lines 14-16); each call gives back a value or raises.         *)

UpstreamError == [kind |-> "upstream", msg |-> <<>>]
SignatureError(domain) == [kind |-> "signature", msg |-> SignatureErrPrefix \o domain]

\* "return v" of a tool function.
Return(i, v) ==
    /\ pc' = [pc EXCEPT ![i] = "done"]
    /\ ret' = [ret EXCEPT ![i] = v]

\* Lines 43-45 of get_backlinks_list.
QuerySignature(i) ==
    /\ pc[i] = "query"
    /\ tool[i] = "get_backlinks_list"
    /\ upCalls' = [upCalls EXCEPT ![i] = Append(@,
                     [fn |-> "get_signature_and_overview", token |-> token[i],
                      domain |-> args[i].input])]
    /\ \/ /\ RaiseError(i, UpstreamError)
          /\ UNCHANGED sig
       \/ \E s \in Signatures, v \in ValidUntils, o \in Overviews :
            LET triple == [signature |-> s, valid_until |-> v, overview_data |-> o]
            IN  /\ sig' = [sig EXCEPT ![i] = triple]
                /\ IF SignatureMissing(triple)
                     THEN RaiseError(i, SignatureError(args[i].input))
                     ELSE /\ pc' = [pc EXCEPT ![i] = "backlinks"]
                          /\ UNCHANGED err
    /\ UNCHANGED <<tool, args, site_url, token, ret>>
    /\ UNCHANGED brokerVars

\* Lines 47-48 of get_backlinks_list.
QueryBacklinks(i) ==
    /\ pc[i] = "backlinks"
    /\ \E backlinks \in UpstreamValues \cup {Raised} :
        /\ upCalls' = [upCalls EXCEPT ![i] = Append(@,
                         [fn |-> "get_backlinks", signature |-> sig[i].signature,
                          valid_until |-> sig[i].valid_until,
                          domain |-> args[i].input, result |-> backlinks])]
        /\ IF backlinks = Raised
             THEN /\ RaiseError(i, UpstreamError)
                  /\ UNCHANGED ret
             ELSE /\ Return(i, BacklinksResult(sig[i].overview_data, backlinks))
                  /\ UNCHANGED err
    /\ UNCHANGED <<tool, args, site_url, token, sig>>
    /\ UNCHANGED brokerVars

\* Line 54 of keyword_generator, line 60 of get_traffic, line 66 of
\* keyword_difficulty: the upstream call and the positional arguments.
UpstreamCall(i, v) ==
    CASE tool[i] = "keyword_generator" ->
           [fn |-> "get_keyword_ideas", token |-> token[i],
            keyword |-> args[i].input, country |-> args[i].country,
            search_engine |-> args[i].search_engine, result |-> v]
      [] tool[i] = "get_traffic" ->
           [fn |-> "check_traffic", token |-> token[i],
            domain_or_url |-> args[i].input, mode |-> args[i].mode,
            country |-> args[i].country, result |-> v]
      [] tool[i] = "keyword_difficulty" ->
           [fn |-> "get_keyword_difficulty", token |-> token[i],
            keyword |-> args[i].input, country |-> args[i].country,
            result |-> v]

QueryUpstream(i) ==
    /\ pc[i] = "query"
    /\ tool[i] \in {"keyword_generator", "get_traffic", "keyword_difficulty"}
    /\ \E v \in UpstreamValues \cup {Raised} :
        /\ upCalls' = [upCalls EXCEPT ![i] = Append(@, UpstreamCall(i, v))]
        /\ IF v = Raised
             THEN /\ RaiseError(i, UpstreamError)
                  /\ UNCHANGED ret
             ELSE /\ Return(i, PassThrough(v))
                  /\ UNCHANGED err
    /\ UNCHANGED <<tool, args, site_url, token, sig>>
    /\ UNCHANGED brokerVars

----------------------------------------------------------------------------
(* The system *)

\* A client calls a tool.
Call(i) ==
    \/ get_backlinks_list(i)
    \/ keyword_generator(i)
    \/ get_traffic(i)
    \/ keyword_difficulty(i)

\* The call in progress executes its next statement.
Run(i) ==
    \/ ReadApiKey(i)
    \/ CreateTask(i)
    \/ Sleep(i)
    \/ PostPoll(i)
    \/ HandlePoll(i)
    \/ CheckToken(i)
    \/ QuerySignature(i)
    \/ QueryBacklinks(i)
    \/ QueryUpstream(i)

\* One client: a call starts when the one before it has ended.
Next == \E i \in OneClient : Call(i) \/ Run(i)

Spec == Init /\ [][Next]_vars

\* A call in progress keeps executing: time.sleep(2) returns, and each
\* requests.post returns or raises within its timeout of 20 seconds.
\* Nothing obliges a client to call.
LiveSpec == Spec /\ \A i \in Procs : WF_vars(Run(i))

\* Two clients each call a tool; the calls are followed as far as the
\* call of get_token_for_url(site_url).
----------------------------------------------------------------------------
(* Two tool calls in progress at a time.  The solver gives each task its   *)
(* own identifier and its own token; the tools called and the answers are  *)
(* a part of those of Spec.                                                *)

ConcTask(i) == IF i = 1 THEN "task1" ELSE "task2"
ConcToken(i) == IF i = 1 THEN "tokenA" ELSE "tokenB"

ConcInit == Init /\ env = "key1"

ConcCall(i) ==
    /\ Call(i)
    /\ tool'[i] \in {"get_backlinks_list", "keyword_difficulty"}
    /\ args'[i].input = <<"a">>
    /\ args'[i].country \in {Us, <<>>}

ConcAnswers(i) ==
    /\ cres[i] \in {NoResponse, [kind |-> "exc"],
                    [kind |-> "json", taskId |-> None],
                    [kind |-> "json", taskId |-> ConcTask(i)]}
    /\ res[i] \in {NoResponse, [kind |-> "exc"]} \cup
                  {[kind |-> "json", status |-> st, errorId |-> 0,
                    solution |-> t] :
                      st \in {"processing", "ready", "failed"},
                      t \in {"", ConcToken(i)}}
    /\ sig[i] \in {NoSig, [signature |-> "sig1", valid_until |-> "until1",
                           overview_data |-> "overview1"]}
    /\ \A k \in 1..Len(upCalls[i]) :
          "result" \in DOMAIN upCalls[i][k] =>
              upCalls[i][k].result \in {"data1", Raised}

ConcRun(i) == Run(i) /\ ConcAnswers(i)'

ConcNext == \E i \in Procs : ConcCall(i) \/ ConcRun(i)

ConcSpec == ConcInit /\ [][ConcNext]_vars

----------------------------------------------------------------------------
(* keyword_difficulty called twice in a row with the same arguments,       *)
(* against doubles that answer deterministically.  Invocation 1 is the     *)
(* first call: the doubles' script is what it is answered (of at most      *)
(* MaxPolls polls, the answers before the last all being IdemAgain).       *)
(* Invocation 2 is the second call, answered from the same script.         *)

IdemAgain == [kind |-> "json", status |-> "processing", errorId |-> 0,
              solution |-> "absent"]

\* The statements keyword_difficulty can come to (lines 63-66, 69-102).
IdemStep(i) ==
    \/ ReadApiKey(i)
    \/ CreateTask(i)
    \/ Sleep(i)
    \/ PostPoll(i)
    \/ HandlePoll(i)
    \/ CheckToken(i)
    \/ QueryUpstream(i)

IdemScript ==
    /\ NonTerminal(res[1]) => res[1] = IdemAgain
    /\ log[1].polls <= MaxPolls

IdemReplay ==
    /\ cres[2] \in {NoResponse, cres[1]}
    /\ res[2] \in {NoResponse,
                   IF log[2].polls < log[1].polls THEN IdemAgain ELSE res[1]}
    /\ (upCalls[2] # <<>> /\ upCalls[1] # <<>>) =>
          upCalls[2][1].result = upCalls[1][1].result

IdemCallFirst ==
    /\ pc[1] = "idle"
    /\ pc[2] = "idle"
    /\ keyword_difficulty(1)

IdemRunFirst == IdemStep(1) /\ IdemScript'

IdemCallSecond ==
    /\ pc[1] \in {"done", "raised"}
    /\ pc[2] = "idle"
    /\ keyword_difficulty(2)
    /\ args'[2] = args[1]

IdemRunSecond == IdemStep(2) /\ IdemReplay'

IdemNext == IdemCallFirst \/ IdemRunFirst \/ IdemCallSecond \/ IdemRunSecond

IdemSpec == Init /\ [][IdemNext]_vars

----------------------------------------------------------------------------
(* health_check, lines 23-26: the wrapper application's GET / *)

\* Lines 23-26 with a test of the credential: unhealthy without it.
HealthResponse_NeedsKey ==
    IF ApiKeyMissing(env)
      THEN [status |-> 503, body |-> [status |-> "error", message |-> "not configured"]]
      ELSE [status |-> 200, body |-> [status |-> "ok", message |-> "SEO MCP is healthy"]]

\* Line 26: the dict returned, which the route declared at line 23 sends
\* as JSON with the default status of a route, 200.
HealthResponse ==
    [status |-> 200, body |-> [status |-> "ok", message |-> "SEO MCP is healthy"]]

\* Lines 23-26: health_check has no parameters, reads nothing and calls
\* nothing but print.
HealthCheck ==
    /\ health' = HealthResponse
    /\ UNCHANGED <<env, pc, tool, args, site_url, api_key, task_id, cres, res,
                   btoken, token, sig, ret, err, log, sent, upCalls>>

\* The tools of one client, and health checks at any moment.
HealthNext == Next \/ HealthCheck

HealthSpec == Init /\ [][HealthNext]_vars

UrlNext == \E i \in Procs : Call(i)

UrlSpec == Init /\ [][UrlNext]_vars

----------------------------------------------------------------------------
(* Where an invocation stands *)

InBroker(i) == pc[i] \in {"read_key", "create_task", "sleep", "poll", "handle"}
InLoop(i) == pc[i] \in {"sleep", "poll", "handle"}
AfterBroker(i) == pc[i] \in {"check_token", "query", "backlinks", "done", "raised"}

\* The counters of invocation i are exact (the poll loop has not run past
\* MaxPolls requests).
ExactCount(i) == log[i].polls <= MaxPolls

PollRequests(i) == {q \in sent[i] : q.op = "getTaskResult"}
CreateRequests(i) == {q \in sent[i] : q.op = "createTask"}

\* The tool has failed for want of a token: it is about to raise, or has
\* raised, the error of line 73, and has queried nothing upstream.
FailsWithoutToken(i) ==
    /\ pc[i] \in {"check_token", "raised"}
    /\ btoken[i] = None
    /\ token[i] = None
    /\ upCalls[i] = <<>>
    /\ ret[i] = NoReturn
    /\ pc[i] = "raised" => err[i] = TokenError(site_url[i])

----------------------------------------------------------------------------
(* C1: in every invocation of a tool, an upstream query function is called *)
(* only after the broker has returned a token in that invocation, and with *)
(* that token; when the broker returned the failure signal the tool ends   *)
(* in an error and calls no upstream function.                             *)
C1_TokenBeforeUpstream ==
    \A i \in Procs :
        /\ \A k \in 1..Len(upCalls[i]) :
             /\ AfterBroker(i)
             /\ ~Falsy(btoken[i])
             /\ "token" \in DOMAIN upCalls[i][k] => upCalls[i][k].token = btoken[i]
        /\ pc[i] \in {"query", "backlinks", "done"} => ~Falsy(btoken[i])
        /\ (AfterBroker(i) /\ Falsy(btoken[i])) =>
             /\ pc[i] \in {"check_token", "raised"}
             /\ upCalls[i] = <<>>
             /\ pc[i] = "raised" => err[i] = TokenError(site_url[i])

C1_Witness ==
    \E i \in Procs :
        /\ pc[i] = "done"
        /\ tool[i] = "get_traffic"
        /\ btoken[i] = "tokenA"
        /\ Len(upCalls[i]) = 1
        /\ upCalls[i][1].token = "tokenA"

----------------------------------------------------------------------------
(* C2: a tool call made while CAPSOLVER_API_KEY is unset or empty fails    *)
(* with the error of get_token_for_url (the code has one exception type,   *)
(* Exception, for every failure) and sends nothing: no createTask, no      *)
(* getTaskResult, no upstream query.                                       *)
C2_NoKeyNoNetwork ==
    \A i \in Procs :
        (Falsy(env) /\ pc[i] # "idle") =>
            /\ sent[i] = {}
            /\ log[i] = EmptyLog
            /\ upCalls[i] = <<>>
            /\ pc[i] \in {"read_key", "check_token", "raised"}
            /\ pc[i] # "read_key" => FailsWithoutToken(i)

C2_Witness ==
    \E i \in Procs :
        /\ env = ""
        /\ pc[i] = "raised"
        /\ tool[i] = "keyword_generator"
        /\ err[i] = TokenError(site_url[i])

----------------------------------------------------------------------------
(* C3: when createTask gave a task identifier and the polls were answered  *)
(* by n non-terminal responses and then one response with status ready and *)
(* token t, get_capsolver_token has returned t, after exactly n + 1        *)
(* getTaskResult requests and one createTask request, and it sends nothing *)
(* afterwards; while every answer so far was non-terminal the loop is      *)
(* still running.                                                          *)
C3_ReadyAfterPending ==
    \A i \in Procs :
        LET r == res[i]
            L == log[i]
        IN  /\ (AfterBroker(i) /\ ExactCount(i) /\ r.kind = "json"
                  /\ r.status = "ready"
                  /\ r.solution \notin {"absent", "empty"}) =>
                    /\ btoken[i] = r.solution
                    /\ L.polls = L.pending + 1
                    /\ L.sleeps = L.polls
                    /\ L.creates = 1
                    /\ Cardinality(CreateRequests(i)) = 1
                    /\ PollRequests(i) =
                         {[op |-> "getTaskResult", clientKey |-> api_key[i],
                           taskId |-> task_id[i]]}
            /\ (ExactCount(i) /\ L.polls > 0 /\ L.pending = L.polls
                  /\ r.kind = "json") => InLoop(i)

C3_Witness ==
    \E i \in Procs :
        /\ pc[i] = "done"
        /\ res[i].kind = "json"
        /\ res[i].status = "ready"
        /\ res[i].solution = "tokenB"
        /\ btoken[i] = "tokenB"
        /\ log[i].pending = 2
        /\ log[i].polls = 3

----------------------------------------------------------------------------
(* C4: once a poll response has status failed, on the first poll or a      *)
(* later one, the loop is over: get_capsolver_token returns None, never a  *)
(* token, no further request is sent, and the tool fails.                  *)
C4_FailedStatusFails ==
    \A i \in Procs :
        (res[i].kind = "json" /\ res[i].status = "failed") =>
            /\ pc[i] \in {"handle", "check_token", "raised"}
            /\ pc[i] # "handle" => FailsWithoutToken(i)
            /\ ExactCount(i) => log[i].polls = log[i].pending + 1

C4_Witness ==
    \E i \in Procs :
        /\ pc[i] = "raised"
        /\ res[i].kind = "json"
        /\ res[i].status = "failed"
        /\ res[i].solution = "tokenA"
        /\ log[i].polls = 2

----------------------------------------------------------------------------
(* C5, as claimed: once a poll response carries a non-empty errorId,       *)
(* get_capsolver_token returns None and the tool fails, whatever else the  *)
(* response contains.                                                      *)
C5_ErrorIdAlwaysFails ==
    \A i \in Procs :
        (res[i].kind = "json" /\ res[i].errorId # 0) =>
            /\ pc[i] \in {"handle", "check_token", "raised"}
            /\ pc[i] # "handle" => Falsy(btoken[i]) /\ upCalls[i] = <<>>

(* C5, amended: a poll response with a non-empty errorId and a status      *)
(* other than ready makes get_capsolver_token return None and the tool     *)
(* fail; a response with status ready is answered with its solution's      *)
(* token (None when there is none) even when it carries an errorId.        *)
C5_ErrorIdFailsUnlessReady ==
    \A i \in Procs :
        LET r == res[i]
        IN  /\ (r.kind = "json" /\ r.errorId # 0 /\ r.status # "ready") =>
                 /\ pc[i] \in {"handle", "check_token", "raised"}
                 /\ pc[i] # "handle" => FailsWithoutToken(i)
            /\ (r.kind = "json" /\ r.errorId # 0 /\ r.status = "ready") =>
                 /\ pc[i] # "handle" => AfterBroker(i)
                 /\ AfterBroker(i) =>
                      btoken[i] = IF r.solution \in {"absent", "empty"}
                                    THEN None ELSE r.solution

C5_Witness ==
    \E i \in Procs :
        /\ pc[i] = "raised"
        /\ res[i].kind = "json"
        /\ res[i].errorId = 1
        /\ res[i].status = "processing"
        /\ res[i].solution = "tokenA"

----------------------------------------------------------------------------
(* C6: when the createTask response holds no task identifier (the key is   *)
(* missing or its value empty), get_capsolver_token returns None, the tool *)
(* fails, and no getTaskResult request is ever sent.                       *)
C6_NoTaskIdNoPoll ==
    \A i \in Procs :
        (cres[i].kind = "json" /\ Falsy(cres[i].taskId)) =>
            /\ FailsWithoutToken(i)
            /\ PollRequests(i) = {}
            /\ log[i] = [EmptyLog EXCEPT !.creates = 1]

C6_Witness ==
    \E i \in Procs :
        /\ cres[i].kind = "json"
        /\ cres[i].taskId = ""
        /\ pc[i] = "raised"

----------------------------------------------------------------------------
(* C7: a network error (requests.post raising, or an HTTP error status)    *)
(* at createTask or at any getTaskResult is caught in get_capsolver_token, *)
(* which returns None: the tool then fails with the error of               *)
(* get_token_for_url, not with the transport exception, and no solver      *)
(* request follows the error.                                              *)
NetworkError(r) == r.kind \in {"exc", "http"}

C7_NetworkErrorCaught ==
    \A i \in Procs :
        /\ NetworkError(cres[i]) =>
             /\ FailsWithoutToken(i)
             /\ PollRequests(i) = {}
             /\ log[i] = [EmptyLog EXCEPT !.creates = 1]
        /\ NetworkError(res[i]) =>
             /\ pc[i] \in {"handle", "check_token", "raised"}
             /\ pc[i] = "handle" => res[i].kind = "http"
             /\ pc[i] # "handle" => FailsWithoutToken(i)
             /\ ExactCount(i) => log[i].polls = log[i].pending + 1

C7_Witness ==
    \E i \in Procs :
        /\ pc[i] = "raised"
        /\ res[i].kind = "http"
        /\ log[i].polls = 3
        /\ err[i] = TokenError(site_url[i])

----------------------------------------------------------------------------
(* C8: get_capsolver_token has no timeout and no cap on its polls.  From   *)
(* anywhere inside it, it returns or gets one more non-terminal answer;    *)
(* every terminal answer (ready, failed, errorId) and every network error  *)
(* makes it return; and it leaves the poll loop in no other way, so that   *)
(* it polls forever when every answer is non-terminal.                     *)
TerminalAnswer(i) == pc[i] = "handle" /\ ~NonTerminal(res[i])
PendingAnswer(i) == pc[i] = "handle" /\ NonTerminal(res[i])

C8_UnboundedPolling ==
    /\ \A i \in Procs : InBroker(i) ~> (AfterBroker(i) \/ PendingAnswer(i))
    /\ \A i \in Procs : TerminalAnswer(i) ~> AfterBroker(i)
    /\ [][\A i \in Procs :
            /\ (InLoop(i) /\ ~InLoop(i)') =>
                  \/ TerminalAnswer(i)
                  \/ pc[i] = "poll" /\ res'[i].kind = "exc"
            /\ (PendingAnswer(i) /\ pc'[i] # pc[i]) => pc'[i] = "sleep"]_vars

\* The loop is still running after more than MaxPolls non-terminal answers.
C8_Witness ==
    \E i \in Procs :
        /\ pc[i] = "sleep"
        /\ log[i].pending = MaxPolls + 1
        /\ log[i].polls = MaxPolls + 1

\* What a broker with a ceiling on its polls would satisfy.  It does not
\* hold under LiveSpec: the behaviour in which every poll is answered
\* "processing" stays in the loop.
BrokerAlwaysReturns == \A i \in Procs : InBroker(i) ~> AfterBroker(i)

----------------------------------------------------------------------------
(* C9: when get_signature_and_overview gives no signature or no validity,  *)
(* get_backlinks_list raises the error of line 45, whose message names the *)
(* domain; get_backlinks is not called and nothing is returned.            *)
HasTriple(i) == "signature" \in DOMAIN sig[i]

C9_NoSignatureFails ==
    \A i \in Procs :
        (HasTriple(i) /\ (Falsy(sig[i].signature) \/ Falsy(sig[i].valid_until))) =>
            /\ pc[i] = "raised"
            /\ err[i] = [kind |-> "signature",
                         msg |-> SignatureErrPrefix \o args[i].input]
            /\ Len(upCalls[i]) = 1
            /\ upCalls[i][1].fn = "get_signature_and_overview"
            /\ ret[i] = NoReturn

C9_Witness ==
    \E i \in Procs :
        /\ pc[i] = "raised"
        /\ HasTriple(i)
        /\ sig[i].signature = "sig1"
        /\ sig[i].valid_until = None
        /\ err[i].kind = "signature"

----------------------------------------------------------------------------
(* C10: when get_backlinks_list has a token and the upstream gives a       *)
(* signature, a validity and an overview and then a backlink value, the    *)
(* tool returns the mapping with exactly the keys overview and backlinks,  *)
(* holding the overview of get_signature_and_overview and the value of     *)
(* get_backlinks(signature, valid_until, domain), both unchanged.          *)
C10_BacklinksEcho ==
    \A i \in Procs :
        (tool[i] = "get_backlinks_list" /\ HasTriple(i)
           /\ ~Falsy(sig[i].signature) /\ ~Falsy(sig[i].valid_until)
           /\ Len(upCalls[i]) = 2 /\ upCalls[i][2].result # Raised) =>
            /\ pc[i] = "done"
            /\ upCalls[i][1] = [fn |-> "get_signature_and_overview",
                                token |-> btoken[i], domain |-> args[i].input]
            /\ upCalls[i][2].fn = "get_backlinks"
            /\ upCalls[i][2].signature = sig[i].signature
            /\ upCalls[i][2].valid_until = sig[i].valid_until
            /\ upCalls[i][2].domain = args[i].input
            /\ ret[i].type = "dict"
            /\ DOMAIN ret[i].items = {"overview", "backlinks"}
            /\ ret[i].items.overview = sig[i].overview_data
            /\ ret[i].items.backlinks = upCalls[i][2].result

C10_Witness ==
    \E i \in Procs :
        /\ pc[i] = "done"
        /\ tool[i] = "get_backlinks_list"
        /\ ret[i].type = "dict"
        /\ ret[i].items.overview = "overview1"
        /\ ret[i].items.backlinks = "empty"

----------------------------------------------------------------------------
(* The input parameter of the URL of keyword_generator: what follows       *)
(* "&input=".                                                              *)
KeywordParam(i) ==
    LET prefix == AhrefsBase \o KeywordGeneratorPath \o args[i].country \o AmpInput
    IN  SubSeq(site_url[i], Len(prefix) + 1, Len(site_url[i]))

ReservedChars == {" ", "&", "=", "?", "#", "/"}

\* Percent-decoding: %XX is one character, anything else stands for itself.
DecodeHex(h, l) ==
    CASE <<h, l>> = <<"2", "0">> -> " "
      [] <<h, l>> = <<"2", "6">> -> "&"
      [] <<h, l>> = <<"3", "D">> -> "="
      [] <<h, l>> = <<"3", "F">> -> "?"
      [] <<h, l>> = <<"2", "3">> -> "#"
      [] <<h, l>> = <<"2", "5">> -> "%"
      [] <<h, l>> = <<"2", "F">> -> "/"
      [] OTHER -> "<undecodable>"

RECURSIVE Unquote(_)
Unquote(s) ==
    IF s = <<>> THEN <<>>
    ELSE IF Head(s) = "%" /\ Len(s) >= 3
           THEN <<DecodeHex(s[2], s[3])>> \o Unquote(SubSeq(s, 4, Len(s)))
           ELSE <<Head(s)>> \o Unquote(Tail(s))

CalledKeywordGenerator(i) == tool[i] = "keyword_generator" /\ pc[i] # "idle"

(* C11, as claimed: no reserved URL character (space, "&", "=", "?", "#",  *)
(* "/") stands literally in the input parameter of the URL that            *)
(* keyword_generator hands to the Token Broker.                            *)
C11_NoReservedCharLiteral ==
    \A i \in Procs :
        CalledKeywordGenerator(i) =>
            \A k \in 1..Len(KeywordParam(i)) : KeywordParam(i)[k] \notin ReservedChars

(* C11, amended: in the input parameter of the URL that keyword_generator  *)
(* hands to the Token Broker every reserved character of the keyword other *)
(* than "/" is percent-encoded; "/" stays literal; decoding the parameter  *)
(* gives the keyword back, and this URL is the websiteURL of createTask.   *)
C11_ReservedCharsButSlashEncoded ==
    \A i \in Procs :
        CalledKeywordGenerator(i) =>
            /\ \A k \in 1..Len(KeywordParam(i)) :
                 KeywordParam(i)[k] \notin (ReservedChars \ {"/"})
            /\ Unquote(KeywordParam(i)) = args[i].input
            /\ Len(KeywordParam(i)) =
                 Len(args[i].input)
                 + 2 * Cardinality({k \in 1..Len(args[i].input) :
                                      args[i].input[k] \in (ReservedChars \ {"/"}) \cup {"%"}})
            /\ \A q \in CreateRequests(i) : q.websiteURL = site_url[i]

C11_Witness ==
    \E i \in Procs :
        /\ CalledKeywordGenerator(i)
        /\ args[i].input = <<"&", "=", "?", "#", "%">>
        /\ KeywordParam(i) = <<"%", "2", "6", "%", "3", "D", "%", "3", "F",
                               "%", "2", "3", "%", "2", "5">>
        /\ CreateRequests(i) # {}

----------------------------------------------------------------------------
(* C12, as claimed: the URL a tool hands to the Token Broker encodes every *)
(* argument the tool passes to its upstream query: two calls of the same   *)
(* tool that differ in an argument ask for tokens for different URLs.      *)
Called(i) == pc[i] # "idle"

C12_UrlEncodesEveryArgument ==
    \A i, j \in Procs :
        (Called(i) /\ Called(j) /\ tool[i] = tool[j] /\ args[i] # args[j]) =>
            site_url[i] # site_url[j]

\* The arguments the f-strings of lines 42, 53, 59 and 65 mention.
UrlArgs(i) ==
    CASE tool[i] = "get_backlinks_list" -> <<args[i].input>>
      [] tool[i] = "keyword_generator" -> <<args[i].input, args[i].country>>
      [] tool[i] = "get_traffic" -> <<args[i].input, args[i].mode>>
      [] tool[i] = "keyword_difficulty" -> <<args[i].input, args[i].country>>

(* C12, amended: the URL encodes the domain or keyword, the country of     *)
(* keyword_generator and keyword_difficulty and the mode of get_traffic:   *)
(* two calls of the same tool that differ in one of these ask for tokens   *)
(* for different URLs.  The search_engine of keyword_generator and the     *)
(* country of get_traffic are not in the URL: calls that differ only in    *)
(* those ask for tokens for the same URL.                                  *)
C12_UrlEncodesItsArguments ==
    \A i, j \in Procs :
        (Called(i) /\ Called(j) /\ tool[i] = tool[j]) =>
            (UrlArgs(i) = UrlArgs(j) <=> site_url[i] = site_url[j])

C12_Witness ==
    /\ Called(1) /\ Called(2)
    /\ tool[1] = "keyword_difficulty" /\ tool[2] = "keyword_difficulty"
    /\ args[1].input = args[2].input
    /\ args[1].country # args[2].country
    /\ site_url[1] # site_url[2]

----------------------------------------------------------------------------
(* C13: every failure to get a token (credential missing, createTask       *)
(* without task identifier, failed poll, network error) ends the tool call *)
(* with the exception of line 73, whose message contains the URL that was  *)
(* handed to the broker; the tool returns nothing, and in particular no    *)
(* None or empty result.                                                   *)
Contains(s, t) ==
    \E k \in 1..(Len(s) - Len(t) + 1) : SubSeq(s, k, k + Len(t) - 1) = t

TokenFailureCause(i) ==
    \/ Falsy(api_key[i])
    \/ cres[i].kind = "json" /\ Falsy(cres[i].taskId)
    \/ NetworkError(cres[i])
    \/ NetworkError(res[i])
    \/ res[i].kind = "json" /\ res[i].status = "failed"

C13_TokenFailureNamesUrl ==
    \A i \in Procs :
        /\ (AfterBroker(i) /\ TokenFailureCause(i)) => Falsy(btoken[i])
        /\ (AfterBroker(i) /\ Falsy(btoken[i])) =>
             /\ pc[i] \in {"check_token", "raised"}
             /\ ret[i] = NoReturn
             /\ upCalls[i] = <<>>
             /\ \A q \in CreateRequests(i) : q.websiteURL = site_url[i]
             /\ pc[i] = "raised" =>
                  /\ err[i].kind = "token"
                  /\ Contains(err[i].msg, site_url[i])
                  /\ SubSeq(err[i].msg, 1, Len(TokenErrPrefix)) = TokenErrPrefix

C13_Witness ==
    \E i \in Procs :
        /\ pc[i] = "raised"
        /\ tool[i] = "keyword_difficulty"
        /\ cres[i].kind = "json"
        /\ cres[i].taskId = None
        /\ err[i].kind = "token"
        /\ Contains(err[i].msg, site_url[i])

----------------------------------------------------------------------------
(* C14: nothing is retried or cached.  In one tool call at most one        *)
(* createTask is sent and each upstream query function is called at most   *)
(* once, also when something failed; a call made with the credential set   *)
(* sends its own createTask, the token it uses is the one of its own ready *)
(* answer, and a call starts with nothing kept from the call before it.    *)
C14_NoRetryNoCache ==
    /\ [](\A i \in Procs :
            /\ log[i].creates <= 1
            /\ Cardinality(CreateRequests(i)) <= 1
            /\ Len(upCalls[i]) <= 2
            /\ \A k, l \in 1..Len(upCalls[i]) :
                 k # l => upCalls[i][k].fn # upCalls[i][l].fn
            /\ (~Falsy(env) /\ pc[i] \notin {"idle", "read_key", "create_task"}) =>
                 /\ log[i].creates = 1
                 /\ CreateRequests(i) =
                      {[op |-> "createTask", clientKey |-> env,
                        websiteURL |-> site_url[i]]}
            /\ ~Falsy(token[i]) =>
                 /\ log[i].creates = 1
                 /\ log[i].polls >= 1
                 /\ res[i].kind = "json"
                 /\ res[i].status = "ready"
                 /\ token[i] = res[i].solution)
    /\ [][\A i \in Procs :
            (Finished(i) /\ ~Finished(i)') =>
                /\ pc'[i] = "read_key"
                /\ log'[i] = EmptyLog
                /\ sent'[i] = {}
                /\ upCalls'[i] = <<>>
                /\ btoken'[i] = None
                /\ token'[i] = None
                /\ task_id'[i] = None]_vars

\* A second call in a row, after a first one that got a token and failed
\* upstream, has got its own token from its own createTask.
C14_Witness ==
    \E i \in Procs :
        /\ pc[i] = "raised"
        /\ err[i].kind = "upstream"
        /\ log[i].creates = 1
        /\ Len(upCalls[i]) = 2
        /\ token[i] = "tokenB"

----------------------------------------------------------------------------
(* C18: order of the solver protocol in one run of get_capsolver_token.    *)
(* A getTaskResult is sent only after the single createTask, carries the   *)
(* task identifier that createTask returned, and is sent right after a     *)
(* wait of 2 seconds: counting a wait whose poll is about to be sent, the  *)
(* waits are as many as the polls and the time waited is 2 seconds each.   *)
AboutToPoll(i) == IF pc[i] = "poll" THEN 1 ELSE 0

C18_ProtocolOrder ==
    /\ [](\A i \in Procs :
            /\ log[i].creates <= 1
            /\ (log[i].polls > 0 \/ InLoop(i)) =>
                 /\ log[i].creates = 1
                 /\ Cardinality(CreateRequests(i)) = 1
                 /\ cres[i].kind = "json"
                 /\ ~Falsy(cres[i].taskId)
            /\ (log[i].polls > 0) = (PollRequests(i) # {})
            /\ PollRequests(i) # {} =>
                 PollRequests(i) =
                   {[op |-> "getTaskResult", clientKey |-> api_key[i],
                     taskId |-> cres[i].taskId]}
            /\ ExactCount(i) =>
                 /\ log[i].sleeps = log[i].polls + AboutToPoll(i)
                 /\ log[i].waited = 2 * log[i].sleeps)
    /\ [][\A i \in Procs :
            (sent'[i] # sent[i] /\ PollRequests(i)' # {}) =>
                /\ CreateRequests(i) # {}
                /\ pc[i] = "poll"
                /\ ExactCount(i) => log[i].sleeps = log[i].polls + 1]_vars

\* Three polls have been sent, after three waits of 2 seconds.
C18_Witness ==
    \E i \in Procs :
        /\ log[i].polls = 3
        /\ log[i].sleeps = 3
        /\ log[i].waited = 6
        /\ log[i].creates = 1
        /\ PollRequests(i) # {}

----------------------------------------------------------------------------
(* C19: a getTaskResult body with status "ready" whose solution is         *)
(* missing, has no token, or has the empty string as token, ends the call  *)
(* as "token unavailable": get_capsolver_token returns a falsy value,      *)
(* get_token_for_url raises the token error for the URL, and no upstream   *)
(* function is ever called with a token that is absent or empty.           *)
ReadyWithoutToken(i) ==
    /\ res[i].kind = "json"
    /\ res[i].status = "ready"
    /\ res[i].solution \in {"absent", "empty", ""}

C19_ReadyWithoutTokenFails ==
    \A i \in Procs :
        /\ (ReadyWithoutToken(i) /\ AfterBroker(i)) =>
              /\ Falsy(btoken[i])
              /\ pc[i] \in {"check_token", "raised"}
              /\ pc[i] = "raised" => err[i] = TokenError(site_url[i])
              /\ token[i] = None
              /\ upCalls[i] = <<>>
              /\ ret[i] = NoReturn
        /\ \A k \in 1..Len(upCalls[i]) :
              upCalls[i][k].fn # "get_backlinks" => ~Falsy(upCalls[i][k].token)

\* A call has failed with the token error after a ready answer whose token
\* was the empty string.
C19_Witness ==
    \E i \in Procs :
        /\ ReadyWithoutToken(i)
        /\ res[i].solution = ""
        /\ btoken[i] = ""
        /\ pc[i] = "raised"
        /\ err[i] = TokenError(site_url[i])

----------------------------------------------------------------------------
(* C17: the health endpoint.  In every reachable state, with the           *)
(* credential set or not and whatever a tool call is doing, GET / can be   *)
(* answered; every answer is HTTP 200 with the body {status: "ok",         *)
(* message: "SEO MCP is healthy"}; and answering sends no solver request,  *)
(* calls no upstream function and changes nothing of the tool calls.       *)
C17_HealthAlwaysOk ==
    /\ [](/\ ENABLED HealthCheck
          /\ health \in {NoHealth,
                         [status |-> 200,
                          body |-> [status |-> "ok",
                                    message |-> "SEO MCP is healthy"]]})
    /\ [][health' # health =>
            /\ health'.status = 200
            /\ sent' = sent
            /\ upCalls' = upCalls
            /\ log' = log
            /\ pc' = pc]_vars

\* GET / has been answered with 200 while a tool call, made without the
\* credential, has failed.
C17_Witness ==
    /\ health = HealthResponse
    /\ Falsy(env)
    /\ \E i \in Procs : pc[i] = "raised"

\* GET / has been answered with 200 while a tool call is in its poll loop.
C17_WitnessPolling ==
    /\ health = HealthResponse
    /\ \E i \in Procs : pc[i] = "poll" /\ log[i].polls >= 1

----------------------------------------------------------------------------
(* C15: tool calls in progress together are isolated.  Under every         *)
(* interleaving of two calls: each polls with the task identifier of its   *)
(* own createTask only; the token it passes upstream is the one of its own *)
(* ready answer; what it has come to (token, failure, still polling) is    *)
(* what its own inputs and answers give when it runs alone; a step of one  *)
(* call changes nothing of the other; and a call in progress can always    *)
(* take its next step, whatever the other is doing.                        *)

\* Everything the model keeps for invocation i.
Slot(i) ==
    <<pc[i], tool[i], args[i], site_url[i], api_key[i], task_id[i], cres[i],
      res[i], btoken[i], token[i], sig[i], ret[i], err[i], log[i], sent[i],
      upCalls[i]>>

\* What get_capsolver_token returns to a call that runs alone, from the
\* credential and the answers this call received.
SoloOutcome(i) ==
    IF ApiKeyMissing(env) THEN None
    ELSE IF cres[i].kind # "json" THEN None
    ELSE IF TaskIdMissing(cres[i].taskId) THEN None
    ELSE IF res[i].kind # "json" THEN None
    ELSE IF PollDecision(res[i]) = "return_token" THEN SolutionToken(res[i])
    ELSE None

OwnProtocol(i) ==
    /\ PollRequests(i) # {} =>
          /\ cres[i].kind = "json"
          /\ PollRequests(i) =
               {[op |-> "getTaskResult", clientKey |-> api_key[i],
                 taskId |-> cres[i].taskId]}
    /\ CreateRequests(i) \subseteq
          {[op |-> "createTask", clientKey |-> api_key[i],
            websiteURL |-> site_url[i]]}
    /\ \A k \in 1..Len(upCalls[i]) :
          upCalls[i][k].fn # "get_backlinks" =>
              /\ res[i].kind = "json"
              /\ res[i].status = "ready"
              /\ upCalls[i][k].token = res[i].solution

OutcomeAsAlone(i) ==
    /\ AfterBroker(i) => btoken[i] = SoloOutcome(i)
    /\ pc[i] \in {"query", "backlinks", "done"} =>
          /\ ~Falsy(btoken[i])
          /\ token[i] = btoken[i]
    /\ pc[i] = "raised" =>
          IF Falsy(btoken[i])
            THEN err[i] = TokenError(site_url[i]) /\ upCalls[i] = <<>>
            ELSE err[i].kind \in {"upstream", "signature"}
    /\ (pc[i] \in {"sleep", "poll"} /\ ExactCount(i)) =>
          log[i].pending = log[i].polls

C15_Isolated ==
    /\ [](\A i \in Procs :
            /\ OwnProtocol(i)
            /\ OutcomeAsAlone(i)
            /\ IF Finished(i) THEN ENABLED ConcCall(i) ELSE ENABLED ConcRun(i))
    /\ [][\A i, j \in Procs :
            (i # j /\ Slot(i)' # Slot(i)) => Slot(j)' = Slot(j)]_vars
    /\ [][env' = env]_vars

\* Both calls are in their poll loops at once, each with its own task;
\* the first has already been told to wait and the second has not finished.
C15_Witness ==
    /\ pc[1] = "poll"
    /\ pc[2] = "sleep"
    /\ log[1].polls >= 1
    /\ log[2].polls >= 2
    /\ task_id[1] = "task1"
    /\ task_id[2] = "task2"

\* One call has returned with its own token while the other is still
\* waiting in its loop.
C15_WitnessFinished ==
    /\ pc[1] = "done"
    /\ token[1] = "tokenA"
    /\ pc[2] = "sleep"
    /\ log[2].polls >= 1
    /\ task_id[2] = "task2"

----------------------------------------------------------------------------
(* C16: keyword_difficulty is idempotent.  Of two calls in a row with the  *)
(* same arguments, against doubles that answer from the same script, the   *)
(* second ends as the first did (same return value or same error) after    *)
(* the same outbound requests in the same numbers and order; and while it  *)
(* runs it never sends a request the first did not send.                   *)
IsPrefix(s, t) == Len(s) <= Len(t) /\ s = SubSeq(t, 1, Len(s))

C16_Idempotent ==
    /\ pc[2] # "idle" =>
          /\ pc[1] \in {"done", "raised"}
          /\ tool[2] = tool[1]
          /\ args[2] = args[1]
          /\ site_url[2] = site_url[1]
          /\ sent[2] \subseteq sent[1]
          /\ log[2].creates <= log[1].creates
          /\ log[2].polls <= log[1].polls
          /\ log[2].sleeps <= log[1].sleeps
          /\ IsPrefix(upCalls[2], upCalls[1])
    /\ pc[2] \in {"done", "raised"} =>
          /\ pc[2] = pc[1]
          /\ ret[2] = ret[1]
          /\ err[2] = err[1]
          /\ btoken[2] = btoken[1]
          /\ token[2] = token[1]
          /\ sent[2] = sent[1]
          /\ log[2] = log[1]
          /\ upCalls[2] = upCalls[1]

\* Both calls have returned the same upstream data, each after its own
\* three polls.
C16_Witness ==
    /\ pc[1] = "done"
    /\ pc[2] = "done"
    /\ ret[2] = ret[1]
    /\ log[1].polls = 3
    /\ log[2].polls = 3
    /\ Cardinality(sent[2]) = 2
    /\ Len(upCalls[2]) = 1

\* Both calls have failed with the same token error.
C16_WitnessFailed ==
    /\ pc[1] = "raised"
    /\ pc[2] = "raised"
    /\ err[2] = TokenError(site_url[2])
    /\ log[2].polls >= 1

====
